---- MODULE Spec2Model ----
(***************************************************************************)
(* Model of sentiment-analyzer/app.py: the text analysis pipeline          *)
(* (clean_text, analyze_text_details, get_sentiment) and the session       *)
(* history kept by main() in st.session_state.                             *)
(*                                                                         *)
(* A Python str is a sequence of one-character strings.  Polarity and      *)
(* subjectivity are floats in the program; here they are integers counting *)
(* halves (1 stands for 0.5), which keeps their sign, their equality and   *)
(* the value 0.5 of the fallback.                                          *)
(***************************************************************************)
EXTENDS Integers, Sequences, FiniteSets, Bags, TLC

VARIABLES
    text_input,         \* value of the st.text_area widget in the current run
    session_keys,       \* keys present in st.session_state
    history,            \* st.session_state.history (meaningful once the key exists)
    analysed,           \* TRUE iff the last run of main() entered `if text_input:`
    cleaned_text,       \* main's local cleaned_text
    sentiment_results,  \* main's local sentiment_results
    text_details,       \* main's local text_details
    current_analysis,   \* main's local current_analysis
    toolkit_calls,      \* TextBlob calls made since the current run/pipeline began
    analyses,           \* the current_analysis of every analysing run, in order
    pc                  \* position in the step-by-step pipeline (SpecText only)

vars == <<text_input, session_keys, history, analysed, cleaned_text,
          sentiment_results, text_details, current_analysis, toolkit_calls,
          analyses, pc>>

----------------------------------------------------------------------------
(* Bounds *)

MaxLen == 3           \* longest text enumerated character by character
MaxRuns == 3          \* analysing runs of main() in one session
PolarityMax == 1      \* polarity estimates range over -PolarityMax..PolarityMax halves
SubjectivityMax == 1  \* subjectivity estimates are 0 or SubjectivityMax halves

----------------------------------------------------------------------------
(* Characters *)

UpperSeq == <<"A","B","C","D","E","F","G","H","I","J","K","L","M",
              "N","O","P","Q","R","S","T","U","V","W","X","Y","Z">>

LowerSeq == <<"a","b","c","d","e","f","g","h","i","j","k","l","m",
              "n","o","p","q","r","s","t","u","v","w","x","y","z">>

Range(s) == {s[i] : i \in DOMAIN s}

\* [a-zA-Z] of the pattern in clean_text
Letters == Range(UpperSeq) \cup Range(LowerSeq)

\* \s of the pattern, and the characters str.strip() / str.split() treat as blank
Whitespace == {" ", "\t", "\n", "\r", "\f"}

\* the character class [.!?] of the sentence splitter
Terminators == {".", "!", "?"}

\* the class [a-zA-Z\s]: what clean_text keeps
Kept == Letters \cup Whitespace

\* the lower-case letter of every upper-case letter
LowerOf == [c \in Range(UpperSeq) |->
               LowerSeq[CHOOSE i \in DOMAIN UpperSeq : UpperSeq[i] = c]]

\* str.lower() on one character
lower_char(c) == IF c \in DOMAIN LowerOf THEN LowerOf[c] ELSE c

\* str.lower()
lower(text) == [i \in DOMAIN text |-> lower_char(text[i])]

----------------------------------------------------------------------------
(* clean_text *)

\* a slip that removes only the first offending character (count=1)
re_sub_first_only(text) ==
    IF \E i \in DOMAIN text : text[i] \notin Kept
    THEN LET k == CHOOSE i \in DOMAIN text :
                      /\ text[i] \notin Kept
                      /\ \A j \in 1..(i-1) : text[j] \in Kept
         IN SubSeq(text, 1, k-1) \o SubSeq(text, k+1, Len(text))
    ELSE text

\* re.sub(r'[^a-zA-Z\s]', '', text): every character outside the class is removed
re_sub_nonalpha(text) == SelectSeq(text, LAMBDA c : c \in Kept)

clean_text(text) == lower(re_sub_nonalpha(text))

----------------------------------------------------------------------------
(* str.strip, str.split, re.split *)

RECURSIVE lstrip(_)
lstrip(s) == IF s # <<>> /\ Head(s) \in Whitespace THEN lstrip(Tail(s)) ELSE s

RECURSIVE rstrip(_)
rstrip(s) ==
    IF s # <<>> /\ s[Len(s)] \in Whitespace THEN rstrip(SubSeq(s, 1, Len(s)-1)) ELSE s

strip(s) == rstrip(lstrip(s))

\* text.split(): the maximal runs of non-blank characters
RECURSIVE split_from(_, _, _, _)
split_from(text, i, cur, acc) ==
    IF i > Len(text)
    THEN IF cur = <<>> THEN acc ELSE Append(acc, cur)
    ELSE IF text[i] \in Whitespace
         THEN split_from(text, i+1, <<>>, IF cur = <<>> THEN acc ELSE Append(acc, cur))
         ELSE split_from(text, i+1, Append(cur, text[i]), acc)

split(text) == split_from(text, 1, <<>>, <<>>)

\* re.split('[.!?]+', text): the fragments between runs of terminators,
\* empty fragments at either end included
RECURSIVE re_split_from(_, _, _, _, _)
re_split_from(text, i, cur, acc, inRun) ==
    IF i > Len(text)
    THEN Append(acc, cur)
    ELSE IF text[i] \in Terminators
         THEN IF inRun
              THEN re_split_from(text, i+1, cur, acc, TRUE)
              ELSE re_split_from(text, i+1, <<>>, Append(acc, cur), TRUE)
         ELSE re_split_from(text, i+1, Append(cur, text[i]), acc, FALSE)

re_split(text) == re_split_from(text, 1, <<>>, <<>>, FALSE)

\* [s.strip() for s in re.split('[.!?]+', text) if s.strip()]
sentences(text) ==
    LET frags == re_split(text)
        kept == SelectSeq(frags, LAMBDA s : strip(s) # <<>>)
    IN [i \in DOMAIN kept |-> strip(kept[i])]

----------------------------------------------------------------------------
(* The toolkit (TextBlob), an external collaborator: every call either     *)
(* raises or returns a value; which one is not decided by this program.    *)

\* what blob.sentiment can do for a text: raise (ok = FALSE) or return a
\* polarity and a subjectivity.  A text without a single token has nothing to
\* assess and gets 0.0 / 0.0 whenever the call returns.
Estimates(text) ==
    {[ok |-> FALSE, polarity |-> 0, subjectivity |-> 0]} \cup
    IF split(text) = <<>>
    THEN {[ok |-> TRUE, polarity |-> 0, subjectivity |-> 0]}
    ELSE [ok : {TRUE}, polarity : (0 - PolarityMax)..PolarityMax,
          subjectivity : {0, SubjectivityMax}]

\* what blob.tags can do: raise (ok = FALSE) or return the tags of the words
Taggings ==
    {[ok |-> FALSE, tags |-> <<>>]} \cup
    {[ok |-> TRUE, tags |-> <<"NN", "VB", "NN">>]}

\* Counter(tag for word, tag in blob.tags)
Counter(tags) ==
    [t \in Range(tags) |-> Cardinality({i \in DOMAIN tags : tags[i] = t})]

----------------------------------------------------------------------------
(* analyze_text_details *)

\* a slip that tests the text itself instead of the stripped text
is_blank_unstripped(text) == text = <<>>

\* `not text.strip()`
is_blank(text) == strip(text) = <<>>

\* a slip that gives up on the counts when tagging raises
analyze_text_details_zeroed(text, tagging) ==
    IF is_blank(text) \/ ~tagging.ok
    THEN [word_count |-> 0, sentence_count |-> 0, pos_counts |-> Counter(<<>>)]
    ELSE [word_count |-> Len(split(text)),
          sentence_count |-> Len(sentences(text)),
          pos_counts |-> Counter(tagging.tags)]

\* The outer `except Exception` (lines 61-67) is not a separate case: with a
\* str argument nothing outside the inner try can raise, and its result would
\* be the same counts with an empty Counter.
analyze_text_details(text, tagging) ==
    IF is_blank(text)
    THEN [word_count |-> 0, sentence_count |-> 0, pos_counts |-> Counter(<<>>)]
    ELSE [word_count |-> Len(split(text)),
          sentence_count |-> Len(sentences(text)),
          pos_counts |-> IF tagging.ok THEN Counter(tagging.tags) ELSE Counter(<<>>)]

\* the TextBlob calls analyze_text_details makes: blob.tags, unless it returned early
tagger_calls(text, tagging) ==
    IF is_blank(text) THEN <<>> ELSE <<[fn |-> "tags", arg |-> text, ok |-> tagging.ok]>>

----------------------------------------------------------------------------
(* get_sentiment *)

FallbackPolarity == 0       \* "polarity": 0
FallbackSubjectivity == 1   \* "subjectivity": 0.5, in halves

\* a slip that classifies with >= instead of >
category_ge(polarity) ==
    IF polarity >= 0 THEN "Positive" ELSE IF polarity < 0 THEN "Negative" ELSE "Neutral"

\* "Positive" if polarity > 0 else "Negative" if polarity < 0 else "Neutral"
category(polarity) ==
    IF polarity > 0 THEN "Positive" ELSE IF polarity < 0 THEN "Negative" ELSE "Neutral"

\* a slip that hands the estimator's zeroes out of the except branch
get_sentiment_no_fallback(text, est) ==
    [polarity |-> est.polarity, subjectivity |-> est.subjectivity,
     category |-> category(est.polarity)]

get_sentiment(text, est) ==
    IF est.ok
    THEN [polarity |-> est.polarity, subjectivity |-> est.subjectivity,
          category |-> category(est.polarity)]
    ELSE [polarity |-> FallbackPolarity, subjectivity |-> FallbackSubjectivity,
          category |-> "Neutral"]

\* the TextBlob call get_sentiment makes: blob.sentiment, always
sentiment_calls(text, est) == <<[fn |-> "sentiment", arg |-> text, ok |-> est.ok]>>

----------------------------------------------------------------------------
(* main: preview and session history *)

PreviewLen == 50

Ellipsis == <<".", ".", ".">>

\* a slip that truncates from 50 characters on (>= instead of >)
preview_ge(text) ==
    IF Len(text) >= PreviewLen THEN SubSeq(text, 1, PreviewLen) \o Ellipsis ELSE text

\* text_input[:50] + "..." if len(text_input) > 50 else text_input
preview(text) ==
    IF Len(text) > PreviewLen THEN SubSeq(text, 1, PreviewLen) \o Ellipsis ELSE text

\* a slip that runs the analysis whatever the widget holds
main_guard_always(text) == TRUE

\* `if text_input:` -- a str is truthy iff it is not empty
main_guard(text) == text # <<>>

\* a slip that assigns the empty list on every run
init_history_always(keys, h) == <<>>

\* if 'history' not in st.session_state: st.session_state.history = []
init_history(keys, h) == IF "history" \in keys THEN h ELSE <<>>

\* a slip that drops the membership test
append_history_no_dedup(h, e) == Append(h, e)

\* a slip that compares with the most recent entry only
append_history_tail_only(h, e) ==
    IF h # <<>> /\ h[Len(h)] = e THEN h ELSE Append(h, e)

\* if current_analysis not in st.session_state.history: ...append(current_analysis)
append_history(h, e) == IF e \in Range(h) THEN h ELSE Append(h, e)

----------------------------------------------------------------------------
(* Inputs *)

\* the characters texts are enumerated over: a lower-case and an upper-case
\* letter, a digit, two blanks and two sentence terminators
SampleAlphabet == {"a", "B", "1", " ", "\n", ".", "!"}

\* every text of at most MaxLen sample characters
Texts == UNION {[1..n -> SampleAlphabet] : n \in 0..MaxLen}

\* a text of n characters made of four-letter words
Fill(n) == [i \in 1..n |-> IF i % 5 = 0 THEN " " ELSE IF i % 5 = 1 THEN "W" ELSE "o"]

\* what the user types in a session: nothing, a blank, a text of exactly the
\* preview length and one a character longer
SessionTexts ==
    {<<>>, <<" ">>} \cup
    {Fill(PreviewLen), Fill(PreviewLen + 1)}

\* values of main's locals while they are not bound
NoText == <<>>
NoSentiment == [polarity |-> 0, subjectivity |-> 0, category |-> "unset"]
NoDetails == [word_count |-> 0, sentence_count |-> 0, pos_counts |-> Counter(<<>>)]
NoAnalysis == [text |-> <<>>, sentiment |-> "unset", polarity |-> 0]

----------------------------------------------------------------------------
(* The session: every run of main() is one step *)

Init ==
    /\ text_input = <<>>
    /\ session_keys = {}
    /\ history = <<>>
    /\ analysed = FALSE
    /\ cleaned_text = NoText
    /\ sentiment_results = NoSentiment
    /\ text_details = NoDetails
    /\ current_analysis = NoAnalysis
    /\ toolkit_calls = <<>>
    /\ analyses = <<>>
    /\ pc = "main"

\* one run of main() with the widget holding t; tagging and est are what the
\* toolkit does when this run calls it
Main(t) ==
    /\ pc = "main"
    /\ Len(analyses) < MaxRuns
    /\ text_input' = t
    /\ pc' = pc
    /\ IF main_guard(t)
       THEN \E c \in {clean_text(t)} :
            \E tagging \in Taggings :
            \E d \in {analyze_text_details(t, tagging)} :
            \E est \in Estimates(c) :
            \E s \in {get_sentiment(c, est)} :
            \E cur \in {[text |-> preview(t), sentiment |-> s.category,
                         polarity |-> s.polarity]} :
               /\ analysed' = TRUE
               /\ cleaned_text' = c
               /\ sentiment_results' = s
               /\ text_details' = d
               /\ toolkit_calls' = sentiment_calls(c, est) \o tagger_calls(t, tagging)
               /\ session_keys' = session_keys \cup {"history"}
               /\ current_analysis' = cur
               /\ history' = append_history(init_history(session_keys, history), cur)
               /\ analyses' = Append(analyses, cur)
       ELSE /\ analysed' = FALSE
            /\ cleaned_text' = NoText
            /\ sentiment_results' = NoSentiment
            /\ text_details' = NoDetails
            /\ current_analysis' = NoAnalysis
            /\ toolkit_calls' = <<>>
            /\ UNCHANGED <<session_keys, history, analyses>>

Next == \E t \in SessionTexts : Main(t)

Spec == Init /\ [][Next]_vars

----------------------------------------------------------------------------
(* The pipeline of main() lines 98-102, one call per step, over every text *)

InitText ==
    /\ text_input \in Texts
    /\ session_keys = {}
    /\ history = <<>>
    /\ analysed = FALSE
    /\ cleaned_text = NoText
    /\ sentiment_results = NoSentiment
    /\ text_details = NoDetails
    /\ current_analysis = NoAnalysis
    /\ toolkit_calls = <<>>
    /\ analyses = <<>>
    /\ pc = "clean"

CleanText ==
    /\ pc = "clean"
    /\ cleaned_text' = clean_text(text_input)
    /\ pc' = "sentiment"
    /\ UNCHANGED <<text_input, session_keys, history, analysed, sentiment_results,
                   text_details, current_analysis, toolkit_calls, analyses>>

GetSentiment ==
    /\ pc = "sentiment"
    /\ \E est \in Estimates(cleaned_text) :
          /\ sentiment_results' = get_sentiment(cleaned_text, est)
          /\ toolkit_calls' = toolkit_calls \o sentiment_calls(cleaned_text, est)
    /\ pc' = "details"
    /\ UNCHANGED <<text_input, session_keys, history, analysed, cleaned_text,
                   text_details, current_analysis, analyses>>

AnalyzeTextDetails ==
    /\ pc = "details"
    /\ \E tagging \in Taggings :
          /\ text_details' = analyze_text_details(text_input, tagging)
          /\ toolkit_calls' = toolkit_calls \o tagger_calls(text_input, tagging)
    /\ pc' = "done"
    /\ UNCHANGED <<text_input, session_keys, history, analysed, cleaned_text,
                   sentiment_results, current_analysis, analyses>>

NextText == CleanText \/ GetSentiment \/ AnalyzeTextDetails

SpecText == InitText /\ [][NextText]_vars

----------------------------------------------------------------------------
(* Properties *)

\* the label agrees with the sign of the polarity
SignAgrees(label, polarity) ==
    /\ label = "Positive" <=> polarity > 0
    /\ label = "Negative" <=> polarity < 0
    /\ label = "Neutral" <=> polarity = 0

\* every character of the text is a blank (the empty text included)
AllBlank(text) == \A i \in DOMAIN text : text[i] \in Whitespace

\* positions where a whitespace-delimited token ends
TokenEnds(text) ==
    {i \in DOMAIN text :
        /\ text[i] \notin Whitespace
        /\ i = Len(text) \/ text[i+1] \in Whitespace}

\* positions of the first non-blank, non-terminator character after the start
\* of the text or after a terminator: one per non-empty trimmed fragment
FragmentStarts(text) ==
    {i \in DOMAIN text :
        /\ text[i] \notin Whitespace \cup Terminators
        /\ \A j \in 1..(i-1) :
              text[j] \notin Whitespace \cup Terminators
                  => \E k \in (j+1)..(i-1) : text[k] \in Terminators}

\* the tagger was called and raised
TaggingFailed == \E i \in DOMAIN toolkit_calls :
                     toolkit_calls[i].fn = "tags" /\ ~toolkit_calls[i].ok

\* the sentiment estimator was called and raised
SentimentFailed == \E i \in DOMAIN toolkit_calls :
                       toolkit_calls[i].fn = "sentiment" /\ ~toolkit_calls[i].ok

\* the tagger was called
TaggerCalled == \E i \in DOMAIN toolkit_calls : toolkit_calls[i].fn = "tags"

IsPrefix(s, t) == Len(s) <= Len(t) /\ \A i \in DOMAIN s : s[i] = t[i]

\* C1: the history never holds two equal entries, it holds every analysis of
\* the session, and two runs with the same analysis leave a history of length 1
C1_HistoryDedup ==
    /\ \A i, j \in DOMAIN history : history[i] = history[j] => i = j
    /\ Range(history) = Range(analyses)
    /\ (Len(analyses) = 2 /\ analyses[1] = analyses[2]) => Len(history) = 1

C1_Witness ==
    /\ Len(analyses) = 2
    /\ analyses[1] = analyses[2]
    /\ history = <<analyses[1]>>

\* C2 as stated: e1, then a distinct e2, then e1 again yields [e1, e2, e1]
C2_RepeatKept ==
    (/\ Len(analyses) = 3
     /\ analyses[1] = analyses[3]
     /\ analyses[1] # analyses[2])
        => history = <<analyses[1], analyses[2], analyses[1]>>

\* C2 amended: e1, then a distinct e2, then e1 again yields [e1, e2]; the
\* non-adjacent repeat of e1 is suppressed
C2_RepeatSuppressed ==
    (/\ Len(analyses) = 3
     /\ analyses[1] = analyses[3]
     /\ analyses[1] # analyses[2])
        => history = <<analyses[1], analyses[2]>>

C2_Witness ==
    /\ Len(analyses) = 3
    /\ analyses[1] = analyses[3]
    /\ analyses[1] # analyses[2]
    /\ Len(history) = 2

\* C3: every run leaves the history it found as a prefix of the history it
\* leaves, which is at most one entry longer
C3_AppendOnly ==
    [][IsPrefix(history, history') /\ Len(history') <= Len(history) + 1]_vars

C3_Witness ==
    /\ Len(history) = 2
    /\ Len(analyses) = 3
    /\ "history" \in session_keys

\* C4: the category get_sentiment returns agrees with the sign of the polarity
\* it returns, whether the estimator returned or raised, and so does every
\* entry of the history
C4_CategoryMatchesSign ==
    /\ analysed => SignAgrees(sentiment_results.category, sentiment_results.polarity)
    /\ \A i \in DOMAIN history : SignAgrees(history[i].sentiment, history[i].polarity)

C4_Witness ==
    /\ analysed
    /\ SentimentFailed
    /\ \E i \in DOMAIN history : history[i].polarity > 0
    /\ \E i \in DOMAIN history : history[i].polarity < 0
    /\ \E i \in DOMAIN history : history[i].polarity = 0

\* C5: for an empty or all-blank text analyze_text_details returns zero counts
\* and an empty pos_counts, and the tagger is not called
C5_BlankShortCircuit ==
    (pc = "done" /\ AllBlank(text_input)) =>
        /\ text_details.word_count = 0
        /\ text_details.sentence_count = 0
        /\ DOMAIN text_details.pos_counts = {}
        /\ ~TaggerCalled

C5_Witness ==
    /\ pc = "done"
    /\ AllBlank(text_input)
    /\ Len(text_input) >= 2
    /\ text_details.word_count = 0

\* C6 as stated: a run of main() on an empty or all-blank input yields zero
\* counts, an empty histogram and the neutral sentiment without any toolkit call
C6_NoToolkitCall ==
    AllBlank(text_input) =>
        /\ toolkit_calls = <<>>
        /\ analysed =>
              /\ text_details.word_count = 0
              /\ text_details.sentence_count = 0
              /\ DOMAIN text_details.pos_counts = {}
              /\ sentiment_results.category = "Neutral"

\* C6 amended: on the empty input main() analyses nothing and calls nothing; on
\* a non-empty all-blank input it yields zero counts, an empty histogram and
\* the neutral sentiment without calling the tagger, and calls the sentiment
\* estimator once, on the cleaned text
C6_OnlyTaggerSkipped ==
    AllBlank(text_input) =>
        IF text_input = <<>>
        THEN ~analysed /\ toolkit_calls = <<>>
        ELSE /\ analysed
             /\ text_details.word_count = 0
             /\ text_details.sentence_count = 0
             /\ DOMAIN text_details.pos_counts = {}
             /\ sentiment_results.category = "Neutral"
             /\ sentiment_results.polarity = 0
             /\ Len(toolkit_calls) = 1
             /\ toolkit_calls[1].fn = "sentiment"
             /\ toolkit_calls[1].arg = cleaned_text

C6_Witness ==
    /\ text_input # <<>>
    /\ AllBlank(text_input)
    /\ analysed
    /\ Len(toolkit_calls) = 1
    /\ toolkit_calls[1].ok

\* C7: when the tagger raises on a text that is not blank, pos_counts is empty
\* and the counts are the number of whitespace-delimited tokens and the number
\* of non-empty trimmed fragments between runs of terminators, as they are
\* when the tagger returns
C7_TaggingFailureKeepsCounts ==
    (pc = "done" /\ ~AllBlank(text_input)) =>
        /\ text_details.word_count = Cardinality(TokenEnds(text_input))
        /\ text_details.sentence_count = Cardinality(FragmentStarts(text_input))
        /\ TaggingFailed => DOMAIN text_details.pos_counts = {}

C7_Witness ==
    /\ pc = "done"
    /\ TaggingFailed
    /\ text_details.word_count = 2
    /\ text_details.sentence_count = 1
    /\ DOMAIN text_details.pos_counts = {}

\* C8: when the sentiment estimator raises, get_sentiment returns the fallback
\* triple, the run goes on, and the entry it records has polarity 0 and
\* sentiment Neutral
C8_SentimentFallback ==
    (analysed /\ SentimentFailed) =>
        /\ sentiment_results = [polarity |-> 0, subjectivity |-> FallbackSubjectivity,
                                category |-> "Neutral"]
        /\ current_analysis.polarity = 0
        /\ current_analysis.sentiment = "Neutral"
        /\ analyses # <<>>
        /\ analyses[Len(analyses)] = current_analysis
        /\ current_analysis \in Range(history)

C8_Witness ==
    /\ analysed
    /\ SentimentFailed
    /\ ~AllBlank(text_input)
    /\ history # <<>>
    /\ history[Len(history)] = current_analysis
    /\ current_analysis.sentiment = "Neutral"

\* C9: the preview of an input longer than 50 characters is its first 50
\* characters followed by three dots, 53 characters in all; the preview of a
\* shorter input is the input
C9_PreviewTruncation ==
    analysed =>
        IF Len(text_input) > 50
        THEN /\ Len(current_analysis.text) = 53
             /\ \A i \in 1..50 : current_analysis.text[i] = text_input[i]
             /\ \A i \in 51..53 : current_analysis.text[i] = "."
        ELSE current_analysis.text = text_input

C9_Witness ==
    /\ analysed
    /\ Len(text_input) = 51
    /\ Len(current_analysis.text) = 53
    /\ \E i \in DOMAIN history : Len(history[i].text) = 50

\* C10: cleaning a cleaned text changes nothing, and a cleaned text holds only
\* lower-case letters and whitespace
C10_CleanIdempotent ==
    pc # "clean" =>
        /\ clean_text(cleaned_text) = cleaned_text
        /\ \A i \in DOMAIN cleaned_text :
              cleaned_text[i] \in Range(LowerSeq) \cup Whitespace

C10_Witness ==
    /\ pc = "done"
    /\ Len(text_input) = 3
    /\ Len(cleaned_text) = 1
    /\ cleaned_text[1] \in Range(LowerSeq)
    /\ cleaned_text[1] \notin Range(text_input)

====
